---------------------------- MODULE Spec2Model ----------------------------
(***************************************************************************)
(* A model of streamlit_app.py ("Student SQL Lab"): the table-name         *)
(* resolver, the per-column type inference (smart_cast_df), the loader     *)
(* (load_all), the lexical SQL gate (is_select_only, enforce_limit) and    *)
(* the Query page's Run / Clear handlers with the query history.           *)
(*                                                                         *)
(* Text is modelled as a sequence of one-character strings, so that the    *)
(* regular expressions and string methods of the source are computed       *)
(* character by character.                                                 *)
(***************************************************************************)
EXTENDS Integers, Sequences, FiniteSets, TLC

VARIABLES
    query_history,   \* st.session_state.query_history
    last_df,         \* st.session_state["last_df"]
    err,             \* the message st.error showed in the last handler run
    handed,          \* the statement the last Run gave to pd.read_sql_query
    sql_box,         \* the text area's content when Run was last clicked
    use_limit,       \* the "Auto LIMIT" checkbox when Run was last clicked
    limit_default,   \* the "Limit" slider when Run was last clicked
    now,             \* the clock add_history reads (a logical time)
    files,           \* load_all: the list list_csv_files returned
    pos,             \* load_all: the index of the next file of the loop
    store,           \* load_all: the tables of the sqlite connection
    txn,             \* load_all: the transaction table names
    master,          \* load_all: the master table names
    table_category_map, \* load_all: table name -> category
    load_pc,         \* load_all: "loading", "done" or "raised"
    call             \* the last call of a pure helper, with its result

vars == <<query_history, last_df, err, handed, sql_box, use_limit,
          limit_default, now, files, pos, store, txn, master,
          table_category_map, load_pc, call>>

queryVars == <<query_history, last_df, err, handed, sql_box, use_limit,
               limit_default, now>>
loadVars == <<files, pos, store, txn, master, table_category_map, load_pc>>

----------------------------------------------------------------------------
(* Characters and the str methods the source uses.                         *)

LowerSeq == <<"a","b","c","d","e","f","g","h","i","j","k","l","m",
              "n","o","p","q","r","s","t","u","v","w","x","y","z">>
UpperSeq == <<"A","B","C","D","E","F","G","H","I","J","K","L","M",
              "N","O","P","Q","R","S","T","U","V","W","X","Y","Z">>
DigitSeq == <<"0","1","2","3","4","5","6","7","8","9">>

Range(f) == {f[i] : i \in DOMAIN f}
LowerSet == Range(LowerSeq)
UpperSet == Range(UpperSeq)
DigitSet == Range(DigitSeq)

\* The lower-case letter of each upper-case letter.
LowerOf ==
    [c \in UpperSet |-> LowerSeq[CHOOSE i \in DOMAIN UpperSeq : UpperSeq[i] = c]]

\* str.lower() on one ASCII character.
LowerChar(c) == IF c \in UpperSet THEN LowerOf[c] ELSE c

\* str.lower()
Lower(s) == [i \in DOMAIN s |-> LowerChar(s[i])]

\* \w of the re module, on ASCII text.
WordChars == LowerSet \cup UpperSet \cup DigitSet \cup {"_"}
IsWordChar(c) == c \in WordChars

\* \s of the re module and the characters str.strip() removes, on ASCII text.
SpaceChars == {" ", "\t", "\n", "\r", "\f"}
IsSpace(c) == c \in SpaceChars

\* \d of the re module, on ASCII text.
IsDigit(c) == c \in DigitSet

SetMin(S) == CHOOSE x \in S : \A y \in S : x <= y
SetMax(S) == CHOOSE x \in S : \A y \in S : x >= y

\* str.lstrip() and str.rstrip(): the white space at one end goes.
RECURSIVE LStrip(_)
LStrip(s) == IF s # <<>> /\ IsSpace(s[1]) THEN LStrip(Tail(s)) ELSE s

RECURSIVE RStrip(_)
RStrip(s) ==
    IF s # <<>> /\ IsSpace(s[Len(s)]) THEN RStrip(SubSeq(s, 1, Len(s) - 1)) ELSE s

\* str.strip()
Strip(s) == RStrip(LStrip(s))

\* str.rstrip(";"): every trailing semicolon goes, not only one.
RECURSIVE RStripSemicolons(_)
RStripSemicolons(s) ==
    IF s # <<>> /\ s[Len(s)] = ";"
    THEN RStripSemicolons(SubSeq(s, 1, Len(s) - 1)) ELSE s

\* All sequences over S of length at most n.
RECURSIVE SeqsUpTo(_, _)
SeqsUpTo(S, n) ==
    IF n = 0 THEN {<<>>}
    ELSE LET shorter == SeqsUpTo(S, n - 1)
         IN  shorter \cup {Append(t, x) : t \in shorter, x \in S}

\* The concatenation of a sequence of texts.
RECURSIVE Flatten(_)
Flatten(ss) == IF ss = <<>> THEN <<>> ELSE Head(ss) \o Flatten(Tail(ss))

----------------------------------------------------------------------------
(* NameResolver: TABLE_NAME_MAP, sanitize_name and the lookup of load_all. *)

PrefixCT == <<"3","9","9","3","9","4","_","A","l","l","T","e","a","m","_","M","o","n","s","o","o","n","S","I","M","_","C","T","_">>
PrefixCOM == <<"3","9","9","3","9","4","_","C","o","m","m","o","n","_","M","o","n","s","o","o","n","S","I","M","_","C","O","M","_">>
DotCsv == <<".","c","s","v">>

\* TABLE_NAME_MAP as its (file name, table name) pairs.
TableNamePairs ==
    {
      <<PrefixCT \o <<"c","a","s","h","O","n","H","a","n","d">> \o DotCsv,
        <<"c","a","s","h","_","o","n","_","h","a","n","d">>>>,
      <<PrefixCT \o <<"f","i","n","a","n","c","i","a","l","s">> \o DotCsv,
        <<"f","i","n","a","n","c","i","a","l","s">>>>,
      <<PrefixCT \o <<"i","n","v","e","n","t","o","r","y">> \o DotCsv,
        <<"i","n","v","e","n","t","o","r","y">>>>,
      <<PrefixCT \o <<"m","a","r","k","e","t","i","n","g">> \o DotCsv,
        <<"m","a","r","k","e","t","i","n","g">>>>,
      <<PrefixCT \o <<"o","p","e","r","a","t","i","n","g","_","e","x","p","e","n","s","e">> \o DotCsv,
        <<"o","p","e","r","a","t","i","n","g","_","e","x","p","e","n","s","e">>>>,
      <<PrefixCT \o <<"p","r","o","c","u","r","e","m","e","n","t">> \o DotCsv,
        <<"p","r","o","c","u","r","e","m","e","n","t">>>>,
      <<PrefixCT \o <<"s","a","l","e","s">> \o DotCsv,
        <<"s","a","l","e","s">>>>,
      <<PrefixCOM \o <<"c","l","i","e","n","t">> \o DotCsv,
        <<"d","i","m","_","c","l","i","e","n","t">>>>,
      <<PrefixCOM \o <<"d","a","y">> \o DotCsv,
        <<"d","i","m","_","d","a","y">>>>,
      <<PrefixCOM \o <<"d","e","p","t">> \o DotCsv,
        <<"d","i","m","_","d","e","p","a","r","t","m","e","n","t">>>>,
      <<PrefixCOM \o <<"f","o","r","e","c","a","s","t","_","B","2","B">> \o DotCsv,
        <<"d","i","m","_","f","o","r","e","c","a","s","t","_","b","2","b">>>>,
      <<PrefixCOM \o <<"f","o","r","e","c","a","s","t","_","r","e","t","a","i","l">> \o DotCsv,
        <<"d","i","m","_","f","o","r","e","c","a","s","t","_","r","e","t","a","i","l">>>>,
      <<PrefixCOM \o <<"l","o","c","a","t","i","o","n">> \o DotCsv,
        <<"d","i","m","_","l","o","c","a","t","i","o","n">>>>,
      <<PrefixCOM \o <<"p","r","o","d","u","c","t">> \o DotCsv,
        <<"d","i","m","_","p","r","o","d","u","c","t">>>>,
      <<PrefixCOM \o <<"t","e","a","m">> \o DotCsv,
        <<"d","i","m","_","t","e","a","m">>>>,
      <<PrefixCOM \o <<"v","e","n","d","o","r">> \o DotCsv,
        <<"d","i","m","_","v","e","n","d","o","r">>>>
    }

TABLE_NAME_MAP ==
    [k \in {e[1] : e \in TableNamePairs} |->
        (CHOOSE e \in TableNamePairs : e[1] = k)[2]]

\* os.path.basename (posix): what follows the last "/".
Basename(p) ==
    LET slashes == {i \in DOMAIN p : p[i] = "/"}
    IN  IF slashes = {} THEN p ELSE SubSeq(p, SetMax(slashes) + 1, Len(p))

\* os.path.splitext(b)[0] for a basename b: the text before the last dot,
\* unless only dots precede that dot (a leading dot starts no extension).
SplitextRoot(b) ==
    LET dots == {i \in DOMAIN b : b[i] = "."}
    IN  IF dots = {} THEN b
        ELSE LET d == SetMax(dots)
             IN  IF \E i \in 1..(d - 1) : b[i] # "." THEN SubSeq(b, 1, d - 1)
                 ELSE b

\* re.sub(r"[^A-Za-z0-9_]", "_", base)
SubNonWord(s) == [i \in DOMAIN s |-> IF IsWordChar(s[i]) THEN s[i] ELSE "_"]

\* A plausible slip: the leading-digit prefix is forgotten.
sanitize_name_no_prefix(path_or_name) ==
    Lower(SubNonWord(SplitextRoot(Basename(path_or_name))))

\* sanitize_name
sanitize_name(path_or_name) ==
    LET base0 == SplitextRoot(Basename(path_or_name))
        base1 == SubNonWord(base0)
        base2 == IF base1 # <<>> /\ IsDigit(base1[1])
                 THEN <<"_">> \o base1 ELSE base1
    IN  Lower(base2)

\* load_all: name = TABLE_NAME_MAP.get(os.path.basename(f), sanitize_name(f))
table_name_for(f) ==
    IF Basename(f) \in DOMAIN TABLE_NAME_MAP
    THEN TABLE_NAME_MAP[Basename(f)]
    ELSE sanitize_name(f)

\* Bounds of the paths tried.
MaxNameLen == 4
NameChars == {"a", "B", "1", "_", " ", "!", ".", "/"}

Path1abc == <<"1","a","b","c",".","c","s","v">>
PathMyFile == <<"M","y"," ","F","i","l","e","!",".","c","s","v">>
DataDir == <<"d","a","t","a","/">>

PathInputs ==
    SeqsUpTo(NameChars, MaxNameLen)
        \cup {Path1abc, PathMyFile, DataDir \o Path1abc}
        \cup DOMAIN TABLE_NAME_MAP
        \cup {DataDir \o k : k \in DOMAIN TABLE_NAME_MAP}

\* Python's None and a value that is not None, as a sequence of at most one.
None == <<>>
Some(x) == <<x>>

\* A call of a pure helper waiting to be made, and the call once made.
Pending(fn, arg) == [fn |-> fn, arg |-> arg, done |-> FALSE, result |-> <<>>]
Returned(c, r) == [c EXCEPT !.done = TRUE, !.result = r]
NoCall == Pending("none", <<>>)

QueryIdle ==
    /\ query_history = <<>>
    /\ last_df = None
    /\ err = ""
    /\ handed = None
    /\ sql_box = <<>>
    /\ use_limit = TRUE
    /\ limit_default = 5000
    /\ now = 0

LoadIdle ==
    /\ files = <<>>
    /\ pos = 1
    /\ store = <<>>
    /\ txn = <<>>
    /\ master = <<>>
    /\ table_category_map = <<>>
    /\ load_pc = "idle"

\* The name load_all gives the table of one path.
ResolveName ==
    /\ call.fn = "table_name" /\ ~call.done
    /\ call' = Returned(call, table_name_for(call.arg))
    /\ UNCHANGED <<queryVars, loadVars>>

NameInit ==
    /\ QueryIdle /\ LoadIdle
    /\ call \in {Pending("table_name", p) : p \in PathInputs}
NameNext == ResolveName
NameSpec == NameInit /\ [][NameNext]_vars

\* The resolution as the specification words it: strip the extension,
\* replace, lowercase, then prefix a leading digit.
ResolveAsSpecified(b) ==
    LET lowered == Lower(SubNonWord(SplitextRoot(b)))
    IN  IF lowered # <<>> /\ IsDigit(lowered[1])
        THEN <<"_">> \o lowered ELSE lowered

\* C7: the table name is the override's value verbatim when the basename is
\* a key of TABLE_NAME_MAP; otherwise it is the basename without extension,
\* with every character outside [A-Za-z0-9_] replaced by "_", lowercased and
\* with a leading digit prefixed by "_", so it holds only [a-z0-9_] and does
\* not start with a digit ("1abc.csv" gives "_1abc", "My File!.csv" gives
\* "my_file_").
C7_NameResolution ==
    call.fn = "table_name" /\ call.done =>
        LET b == Basename(call.arg)
            r == call.result
        IN  /\ b \in DOMAIN TABLE_NAME_MAP => r = TABLE_NAME_MAP[b]
            /\ b \notin DOMAIN TABLE_NAME_MAP =>
                 /\ r = ResolveAsSpecified(b)
                 /\ \A i \in DOMAIN r : r[i] \in LowerSet \cup DigitSet \cup {"_"}
                 /\ r # <<>> => ~IsDigit(r[1])
            /\ call.arg = Path1abc => r = <<"_","1","a","b","c">>
            /\ call.arg = PathMyFile =>
                 r = <<"m","y","_","f","i","l","e","_">>

C7_Witness ==
    /\ call.fn = "table_name" /\ call.done
    /\ call.arg = Path1abc
    /\ call.result = <<"_","1","a","b","c">>

C7_WitnessOverride ==
    /\ call.fn = "table_name" /\ call.done
    /\ Basename(call.arg) \in DOMAIN TABLE_NAME_MAP
    /\ call.arg # Basename(call.arg)

----------------------------------------------------------------------------
(* QueryGate: is_select_only and enforce_limit, with their regular          *)
(* expressions computed on the characters.                                  *)

KwSelect == <<"S","E","L","E","C","T">>
KwWith == <<"W","I","T","H">>
KwLimit == <<"L","I","M","I","T">>

\* The alternatives of the pattern `forbidden` of is_select_only.
ForbiddenWords ==
    { <<"I","N","S","E","R","T">>, <<"U","P","D","A","T","E">>,
      <<"D","E","L","E","T","E">>, <<"D","R","O","P">>,
      <<"A","L","T","E","R">>, <<"C","R","E","A","T","E">>,
      <<"R","E","P","L","A","C","E">>, <<"T","R","U","N","C","A","T","E">>,
      <<"A","T","T","A","C","H">>, <<"D","E","T","A","C","H">>,
      <<"V","A","C","U","U","M">>, <<"P","R","A","G","M","A">> }

\* \b between s[i] and s[i+1] (i = 0: the start, i = Len(s): the end).
WordBoundary(s, i) ==
    LET before == i >= 1 /\ IsWordChar(s[i])
        after == i < Len(s) /\ IsWordChar(s[i + 1])
    IN  before # after

\* The literal w matches s from position i on, under re.IGNORECASE.
MatchesAt(s, i, w) ==
    /\ i >= 1
    /\ i + Len(w) - 1 <= Len(s)
    /\ \A k \in 1..Len(w) : LowerChar(s[i + k - 1]) = LowerChar(w[k])

\* re.match(r"^\s*(WITH|SELECT)\b", s, re.IGNORECASE)
re_match_select_with(s) ==
    \E k \in 0..Len(s) :
        /\ \A j \in 1..k : IsSpace(s[j])
        /\ \E w \in {KwWith, KwSelect} :
              MatchesAt(s, k + 1, w) /\ WordBoundary(s, k + Len(w))

\* re.search(r"\b(INSERT|...|PRAGMA)\b", s, re.IGNORECASE)
re_search_forbidden(s) ==
    \E i \in 1..Len(s) : \E w \in ForbiddenWords :
        /\ MatchesAt(s, i, w)
        /\ WordBoundary(s, i - 1)
        /\ WordBoundary(s, i + Len(w) - 1)

\* re.search(r"\bLIMIT\s+\d+\b", s, re.IGNORECASE)
re_search_limit(s) ==
    \E i \in 1..Len(s) :
        /\ MatchesAt(s, i, KwLimit)
        /\ WordBoundary(s, i - 1)
        /\ \E a \in 1..(Len(s) - i - 4) : \E b \in 1..(Len(s) - i - 4 - a) :
              /\ \A j \in (i + 5)..(i + 4 + a) : IsSpace(s[j])
              /\ \A j \in (i + 5 + a)..(i + 4 + a + b) : IsDigit(s[j])
              /\ WordBoundary(s, i + 4 + a + b)

\* A plausible slip: re.IGNORECASE is left out of the blacklist search.
is_select_only_upper(sql) ==
    /\ re_match_select_with(Strip(sql))
    /\ ~\E i \in 1..Len(sql) : \E w \in ForbiddenWords :
           /\ i + Len(w) - 1 <= Len(sql)
           /\ SubSeq(sql, i, i + Len(w) - 1) = w
           /\ WordBoundary(sql, i - 1)
           /\ WordBoundary(sql, i + Len(w) - 1)

\* A plausible slip: the blacklist search is left out.
is_select_only_shape_only(sql) == re_match_select_with(Strip(sql))

\* is_select_only
is_select_only(sql) ==
    /\ re_match_select_with(Strip(sql))
    /\ ~re_search_forbidden(sql)

\* f"{int(max_rows)}": the decimal digits of a natural number.
RECURSIVE IntToStr(_)
IntToStr(n) ==
    IF n < 10 THEN <<DigitSeq[n + 1]>>
    ELSE Append(IntToStr(n \div 10), DigitSeq[(n % 10) + 1])

WrapHead == <<"S","E","L","E","C","T"," ","*"," ","F","R","O","M"," ","(">>
WrapTail == <<")"," ","A","S"," ","t"," ","L","I","M","I","T"," ">>

\* A plausible slip: any word LIMIT counts as a limit clause.
enforce_limit_any_limit(sql, max_rows) ==
    IF \E i \in 1..Len(sql) :
          /\ MatchesAt(sql, i, KwLimit)
          /\ WordBoundary(sql, i - 1)
          /\ WordBoundary(sql, i + 4)
    THEN sql
    ELSE WrapHead \o sql \o WrapTail \o IntToStr(max_rows)

\* A plausible slip: the statement is wrapped whether or not it has a limit.
enforce_limit_always(sql, max_rows) ==
    WrapHead \o sql \o WrapTail \o IntToStr(max_rows)

\* enforce_limit
enforce_limit(sql, max_rows) ==
    IF re_search_limit(sql) THEN sql
    ELSE WrapHead \o sql \o WrapTail \o IntToStr(max_rows)

----------------------------------------------------------------------------
(* The Query page: add_history and the Run and Clear handlers.             *)

HistoryMax == 12
OnlySelectMsg == "Only SELECT / WITH."
ExecErrorMsg == "Execution error"

\* The rows of the frame the engine returns for a statement: the engine is
\* outside the program, and the model fixes one row count.
ResultRows == 1

\* A plausible slip: the cut to 12 entries is left out.
add_history_uncut(history, sql, rows, at) ==
    <<[sql |-> sql, rows |-> rows, at |-> at]>> \o history

\* add_history: the list after the insert at the front and the cut to 12.
add_history(history, sql, rows, at) ==
    LET grown == <<[sql |-> sql, rows |-> rows, at |-> at]>> \o history
    IN  SubSeq(grown, 1, IF Len(grown) < HistoryMax THEN Len(grown) ELSE HistoryMax)

\* sql.strip().rstrip(";").strip()
SqlClean(sql) == Strip(RStripSemicolons(Strip(sql)))

\* The Run handler rejects the statement.
RunRejected ==
    /\ err' = OnlySelectMsg
    /\ handed' = None
    /\ UNCHANGED <<query_history, last_df, now>>

\* pd.read_sql_query raises: the except branch.
RunFailed(q) ==
    /\ handed' = Some(q)
    /\ err' = ExecErrorMsg
    /\ UNCHANGED <<query_history, last_df, now>>

\* pd.read_sql_query returns a frame: it is stored, the history grows and
\* the page is rerun (no message is left on it).
RunSucceeded(sql_clean, q) ==
    /\ handed' = Some(q)
    /\ last_df' = Some([sql |-> q, rows |-> ResultRows])
    /\ now' = now + 1
    /\ query_history' = add_history(query_history, sql_clean, ResultRows, now + 1)
    /\ err' = ""

\* The handler of the Run button for the widget values sql, ul, lim;
\* engine_ok is whether the engine executes the statement it is given.
RunHandler(sql, ul, lim, engine_ok) ==
    LET sql_clean == SqlClean(sql)
    IN  /\ sql_box' = sql
        /\ use_limit' = ul
        /\ limit_default' = lim
        /\ IF ~is_select_only(sql_clean)
           THEN RunRejected
           ELSE LET q == IF ul THEN enforce_limit(sql_clean, lim) ELSE sql_clean
                IN  IF engine_ok THEN RunSucceeded(sql_clean, q)
                    ELSE RunFailed(q)
        /\ UNCHANGED <<loadVars, call>>

\* The handler of the Clear button.
Clear ==
    /\ last_df' = None
    /\ err' = ""
    /\ handed' = None
    /\ UNCHANGED <<query_history, sql_box, use_limit, limit_default, now,
                   loadVars, call>>

\* The slider's values tried (its range is 100..20000, its default 5000).
LimitChoices == {100, 5000}

\* Bounds of the session: the clock stops at MaxClock.
MaxClock == 13

TextSelect1 == <<" ","S","E","L","E","C","T"," ","1",";">>
TextDropTable == <<"D","R","O","P"," ","T","A","B","L","E"," ","x">>
TextSelectDrop == <<"S","E","L","E","C","T"," ","'","d","r","o","p","'">>
TextUpsert == <<"x">>

\* The texts typed into the SQL box in a session.
QueryTexts == {TextSelect1, TextDropTable, TextSelectDrop, TextUpsert}

\* A click of Run; once the clock is at MaxClock only failing runs go on.
Run ==
    \E sql \in QueryTexts : \E ul \in BOOLEAN : \E lim \in LimitChoices :
    \E engine_ok \in BOOLEAN :
       /\ now < MaxClock \/ ~engine_ok
       /\ RunHandler(sql, ul, lim, engine_ok)

Init == QueryIdle /\ LoadIdle /\ call = NoCall
Next == Run \/ Clear
Spec == Init /\ [][Next]_vars

\* Bounds of the texts given to the gate: a head and up to MaxFrags pieces.
MaxFrags == 3
GateHeads == { <<"S","E","L","E","C","T">>, <<"S","E","L","E","C","T"," ">>, <<"w","i","t","h"," ">>, <<" ","S","e","l","e","c","t","\t">>, <<>> }
GatePieces == { <<" ">>, <<"x">>, <<"5">>, <<";">>, <<"L","I","M","I","T">>, <<"D","r","o","p">> }

TextSelectFromT == <<"S","E","L","E","C","T"," ","*"," ","F","R","O","M"," ","t">>
TextSelectFromTLimit == <<"S","E","L","E","C","T"," ","*"," ","F","R","O","M"," ","t"," ","L","I","M","I","T"," ","1","0">>

GateTexts ==
    {h \o Flatten(t) : h \in GateHeads, t \in SeqsUpTo(GatePieces, MaxFrags)}
        \cup QueryTexts \cup {TextSelectFromT, TextSelectFromTLimit}

\* One click of Run on a fresh page, for every text of GateTexts.
GateRun ==
    /\ Init
    /\ \E sql \in GateTexts : \E ul \in BOOLEAN : \E lim \in LimitChoices :
       \E engine_ok \in BOOLEAN :
          RunHandler(sql, ul, lim, engine_ok)

GateNext == GateRun
GateSpec == Init /\ [][GateNext]_vars

\* enforce_limit applied to any text and budget.
ApplyLimit ==
    /\ call.fn = "enforce_limit" /\ ~call.done
    /\ call' = Returned(call, enforce_limit(call.arg.sql, call.arg.max_rows))
    /\ UNCHANGED <<queryVars, loadVars>>

LimitInit ==
    /\ QueryIdle /\ LoadIdle
    /\ call \in {Pending("enforce_limit", [sql |-> s, max_rows |-> n]) :
                    s \in GateTexts, n \in LimitChoices \cup {20000}}
LimitNext == ApplyLimit
LimitSpec == LimitInit /\ [][LimitNext]_vars

----------------------------------------------------------------------------
(* The claims about the gate and the Query page.                           *)

\* The text s, trimmed, starts with SELECT or WITH in any letter case.
StartsWithSelectOrWith(s) ==
    LET t == Strip(s)
    IN  \E w \in {KwSelect, KwWith} :
           /\ Len(t) >= Len(w)
           /\ \A k \in 1..Len(w) : LowerChar(t[k]) = LowerChar(w[k])

\* The word w occurs in s in any letter case with no word character next to
\* it on either side.
HasWholeWord(s, w) ==
    \E i \in 1..(Len(s) - Len(w) + 1) :
        /\ i = 1 \/ ~IsWordChar(s[i - 1])
        /\ i + Len(w) > Len(s) \/ ~IsWordChar(s[i + Len(w)])
        /\ \A k \in 1..Len(w) : LowerChar(s[i + k - 1]) = LowerChar(w[k])

HasForbiddenWord(s) == \E w \in ForbiddenWords : HasWholeWord(s, w)

\* The length of the longest run of characters of the set cs from s[i] on.
RECURSIVE RunLength(_, _, _)
RunLength(s, i, cs) ==
    IF i <= Len(s) /\ s[i] \in cs THEN 1 + RunLength(s, i + 1, cs) ELSE 0

\* s holds a clause LIMIT <integer>: the whole word LIMIT, white space, and
\* digits that end the number.
HasLimitClause(s) ==
    \E i \in 1..(Len(s) - 4) :
        /\ i = 1 \/ ~IsWordChar(s[i - 1])
        /\ \A k \in 1..5 : LowerChar(s[i + k - 1]) = LowerChar(KwLimit[k])
        /\ LET a == RunLength(s, i + 5, SpaceChars)
               b == RunLength(s, i + 5 + a, DigitSet)
               e == i + 5 + a + b
           IN  a >= 1 /\ b >= 1 /\ (e > Len(s) \/ ~IsWordChar(s[e]))

\* q is s as a sub-query under an outer LIMIT n.
IsWrapped(q, s, n) ==
    LET head == <<"S","E","L","E","C","T"," ","*"," ","F","R","O","M"," ","(">>
                    \o s \o <<")">>
        tail == <<" ","L","I","M","I","T"," ">> \o IntToStr(n)
    IN  /\ Len(q) >= Len(head) + Len(tail)
        /\ SubSeq(q, 1, Len(head)) = head
        /\ SubSeq(q, Len(q) - Len(tail) + 1, Len(q)) = tail

\* The statement the last Run gave to the engine carries a row cap.
Capped ==
    LET c == SqlClean(sql_box)
    IN  \/ handed[1] = c /\ HasLimitClause(c)
        \/ IsWrapped(handed[1], c, limit_default)

\* C1: every statement handed to the engine starts with SELECT or WITH and
\* holds no blacklisted whole word, and so does the trimmed text it was made
\* from: a text failing either check is never executed.
C1_OnlyReadOnlyExecuted ==
    handed # None =>
        /\ StartsWithSelectOrWith(handed[1])
        /\ ~HasForbiddenWord(handed[1])
        /\ StartsWithSelectOrWith(SqlClean(sql_box))
        /\ ~HasForbiddenWord(SqlClean(sql_box))

C1_Witness ==
    /\ handed # None
    /\ handed[1] # SqlClean(sql_box)
    /\ StartsWithSelectOrWith(handed[1])

\* C2 as claimed: no accepted statement reaches the engine without a row
\* cap (its own LIMIT <integer>, or the wrapping with LIMIT max_rows).
C2_AlwaysCapped == handed # None => Capped

\* C2 as amended: with Auto LIMIT checked the statement handed to the engine
\* is the caller's with its own LIMIT <integer> or the caller's wrapped under
\* LIMIT max_rows; with Auto LIMIT unchecked it is the caller's trimmed
\* statement as typed, capped or not.
C2_CappedWhenAutoLimit ==
    handed # None =>
        /\ use_limit => Capped
        /\ ~use_limit => handed[1] = SqlClean(sql_box)

C2_Witness ==
    /\ handed # None
    /\ use_limit
    /\ limit_default = 100
    /\ ~HasLimitClause(SqlClean(sql_box))
    /\ IsWrapped(handed[1], SqlClean(sql_box), 100)

WrappedAs(s, alias, n) ==
    <<"S","E","L","E","C","T"," ","*"," ","F","R","O","M"," ","(">> \o s
        \o <<")"," ","A","S"," ">> \o alias
        \o <<" ","L","I","M","I","T"," ">> \o IntToStr(n)

AliasBounded == <<"b","o","u","n","d","e","d">>
AliasT == <<"t">>

\* C3 as claimed: a text with a LIMIT <integer> clause is returned unchanged,
\* any other as SELECT * FROM (<s>) AS bounded LIMIT <max_rows>.
C3_LimitInjectionBounded ==
    call.fn = "enforce_limit" /\ call.done =>
        call.result = IF HasLimitClause(call.arg.sql) THEN call.arg.sql
                      ELSE WrappedAs(call.arg.sql, AliasBounded, call.arg.max_rows)

\* C3 as amended: a text with a LIMIT <integer> clause is returned unchanged,
\* any other as SELECT * FROM (<s>) AS t LIMIT <max_rows>: "SELECT * FROM t"
\* with 5000 gives "SELECT * FROM (SELECT * FROM t) AS t LIMIT 5000".
C3_LimitInjection ==
    call.fn = "enforce_limit" /\ call.done =>
        /\ call.result = IF HasLimitClause(call.arg.sql) THEN call.arg.sql
                         ELSE WrappedAs(call.arg.sql, AliasT, call.arg.max_rows)
        /\ call.arg.sql = TextSelectFromT /\ call.arg.max_rows = 5000 =>
              call.result = <<"S","E","L","E","C","T"," ","*"," ","F","R","O","M"," ","(","S","E","L","E","C","T"," ","*"," ","F","R","O","M"," ","t",")"," ","A","S"," ","t"," ","L","I","M","I","T"," ","5","0","0","0">>
        /\ call.arg.sql = TextSelectFromTLimit => call.result = TextSelectFromTLimit

C3_Witness ==
    /\ call.fn = "enforce_limit" /\ call.done
    /\ call.arg.sql = TextSelectFromT
    /\ call.arg.max_rows = 5000
    /\ call.result = WrappedAs(TextSelectFromT, AliasT, 5000)

\* The rule class a message of the page names.
RuleClassNamed(msg) ==
    IF msg = OnlySelectMsg THEN "NotReadOnlyError" ELSE "none"

\* The last Run was rejected by the gate.
Rejected == handed = None /\ err # "" /\ err # ExecErrorMsg

\* C4 as claimed: a rejection names the rule class it violated, the
\* forbidden-keyword class whenever a blacklisted whole word is present (as
\* for "DROP TABLE x"), the not-read-only class otherwise.
C4_RuleClassNamed ==
    Rejected =>
        RuleClassNamed(err) =
            IF HasForbiddenWord(SqlClean(sql_box)) THEN "ForbiddenKeywordError"
            ELSE "NotReadOnlyError"

\* C4 as amended: a text that does not start with SELECT / WITH or holds a
\* blacklisted whole word is rejected, nothing is executed, and the page
\* shows the one message "Only SELECT / WITH." whichever rule was violated:
\* the two outcomes are not distinguishable; so is "DROP TABLE x".
C4_OneRejectionMessage ==
    LET c == SqlClean(sql_box)
        ran == err # "" \/ handed # None
    IN  /\ ran /\ (~StartsWithSelectOrWith(c) \/ HasForbiddenWord(c)) => Rejected
        /\ Rejected => err = OnlySelectMsg /\ last_df = None /\ query_history = <<>>
        /\ ran /\ sql_box = TextDropTable => err = OnlySelectMsg

C4_Witness ==
    /\ Rejected
    /\ StartsWithSelectOrWith(SqlClean(sql_box))
    /\ HasForbiddenWord(SqlClean(sql_box))
    /\ err = OnlySelectMsg

\* The history is at most 12 entries, newest first.
HistoryBounded ==
    /\ Len(query_history) <= 12
    /\ \A i \in DOMAIN query_history : \A j \in DOMAIN query_history :
          i < j => query_history[i].at > query_history[j].at

\* A step that changes the history is a Run that passed the gate and
\* executed: its statement is the new first entry and the older entries
\* follow in their order.
HistoryGrowsOnSuccess ==
    query_history' # query_history =>
        /\ err' = "" /\ handed' # None
        /\ is_select_only(SqlClean(sql_box'))
        /\ last_df' = Some([sql |-> handed'[1], rows |-> query_history'[1].rows])
        /\ query_history'[1].sql = SqlClean(sql_box')
        /\ Tail(query_history') =
              SubSeq(query_history, 1, Len(query_history') - 1)

\* A Run that is rejected or whose execution fails changes neither the
\* history nor the stored result.
FailureChangesNothing ==
    err' # "" => UNCHANGED <<query_history, last_df>>

\* Clear (no statement handed over, no message) resets the stored result and
\* leaves the history.
ClearKeepsHistory ==
    err' = "" /\ handed' = None => last_df' = None /\ UNCHANGED query_history

\* C10: the history holds at most 12 entries, newest first; only a Run that
\* passed the gate and executed adds an entry; a rejected or failed Run leaves
\* the history and the stored result unchanged; Clear resets the stored result
\* and leaves the history.
C10_History ==
    /\ []HistoryBounded
    /\ [][HistoryGrowsOnSuccess /\ FailureChangesNothing /\ ClearKeepsHistory]_vars

C10_Witness ==
    /\ Len(query_history) = 12
    /\ now = 13
    /\ err = ExecErrorMsg
    /\ last_df # None

----------------------------------------------------------------------------
(* ColumnTypist: smart_cast_df.  A cell of an object column is None (NaN,   *)
(* a missing value) or Some(text).  The parsers of pandas are modelled on   *)
(* the characters for plain decimal numbers, ISO dates (YYYY-MM-DD) and the *)
(* boolean lexicon; other notations pandas reads are not among the cells    *)
(* tried.                                                                   *)

DigitValue(c) == (CHOOSE i \in DOMAIN DigitSeq : DigitSeq[i] = c) - 1

RECURSIVE StripLeadingZeros(_)
StripLeadingZeros(d) ==
    IF Len(d) > 1 /\ d[1] = "0" THEN StripLeadingZeros(Tail(d)) ELSE d

RECURSIVE StripTrailingZeros(_)
StripTrailingZeros(d) ==
    IF d # <<>> /\ d[Len(d)] = "0"
    THEN StripTrailingZeros(SubSeq(d, 1, Len(d) - 1)) ELSE d

\* pd.to_numeric(errors="coerce") on one cell: None for NaN and for a text
\* that is no number, else the number as its sign, the digits of its integer
\* part and the digits of its fraction (without trailing zeros).
to_numeric(cell) ==
    IF cell = None THEN None
    ELSE LET t == cell[1]
             signed == t # <<>> /\ t[1] \in {"+", "-"}
             body == IF signed THEN Tail(t) ELSE t
             dots == {i \in DOMAIN body : body[i] = "."}
             d == IF dots = {} THEN Len(body) + 1 ELSE SetMin(dots)
             int == SubSeq(body, 1, d - 1)
             frac == SubSeq(body, d + 1, Len(body))
             valid == /\ Cardinality(dots) <= 1
                      /\ int # <<>>
                      /\ dots # {} => frac # <<>>
                      /\ \A i \in DOMAIN body : i \notin dots => IsDigit(body[i])
         IN  IF valid
             THEN Some([neg |-> signed /\ t[1] = "-",
                        int |-> StripLeadingZeros(int),
                        frac |-> StripTrailingZeros(frac)])
             ELSE None

\* float(x).is_integer()
is_integer(x) == x.frac = <<>>

\* 2^63, the first magnitude a signed 64-bit integer cannot hold.
Int64Limit == <<"9","2","2","3","3","7","2","0","3","6","8","5","4","7","7","5","8","0","8">>

\* a < b for two digit sequences without leading zeros.
RECURSIVE DigitsLess(_, _)
DigitsLess(a, b) ==
    IF Len(a) # Len(b) THEN Len(a) < Len(b)
    ELSE IF a = <<>> THEN FALSE
    ELSE IF a[1] # b[1] THEN DigitValue(a[1]) < DigitValue(b[1])
    ELSE DigitsLess(Tail(a), Tail(b))

\* astype("Int64") accepts the integral value x: it raises for a value that
\* no signed 64-bit integer equals.
FitsInt64(x) == DigitsLess(x.int, Int64Limit) \/ (x.neg /\ x.int = Int64Limit)

\* pd.to_datetime(errors="coerce") on one cell: None (NaT) for NaN and for a
\* text that is no date, else the date.
to_datetime(cell) ==
    IF cell = None THEN None
    ELSE LET t == cell[1]
             shaped == /\ Len(t) = 10
                       /\ t[5] = "-" /\ t[8] = "-"
                       /\ \A i \in {1, 2, 3, 4, 6, 7, 9, 10} : IsDigit(t[i])
             month == 10 * DigitValue(t[6]) + DigitValue(t[7])
             day == 10 * DigitValue(t[9]) + DigitValue(t[10])
         IN  IF shaped /\ month \in 1..12 /\ day \in 1..31
             THEN Some([year |-> SubSeq(t, 1, 4), month |-> month, day |-> day])
             ELSE None

\* bool_map
BoolTrue == { <<"t","r","u","e">>, <<"t">>, <<"y","e","s">>, <<"y">>, <<"1">> }
BoolFalse == { <<"f","a","l","s","e">>, <<"f">>, <<"n","o">>, <<"n">>, <<"0">> }

\* s.astype(str).str.strip().str.lower().map(bool_map) on one cell: NaN
\* becomes the text "nan", which the map does not hold.
to_boolean(cell) ==
    LET low == IF cell = None THEN <<"n","a","n">> ELSE Lower(Strip(cell[1]))
    IN  IF low \in BoolTrue THEN Some(TRUE)
        ELSE IF low \in BoolFalse THEN Some(FALSE)
        ELSE None

NotNaCount(series) == Cardinality({i \in DOMAIN series : series[i] # None})

\* A plausible slip: the threshold is compared with > instead of >=.
ratio_strictly_above(series) ==
    Len(series) # 0 /\ 10 * NotNaCount(series) > 9 * Len(series)

\* _ratio_not_na(series) >= 0.9, the ratio being 0.0 for no cells: the
\* comparison of the quotient with 0.9 as one of integers.
ratio_reaches(series) ==
    Len(series) # 0 /\ 10 * NotNaCount(series) >= 9 * Len(series)

Typed(dtype, values) == [dtype |-> dtype, values |-> values]

\* The boolean and last rules of the loop body, for an object column.
cast_boolean_or_keep(col) ==
    LET mapped == [i \in DOMAIN col.values |-> to_boolean(col.values[i])]
    IN  IF col.dtype = "object" /\ ratio_reaches(mapped)
        THEN Typed("boolean", mapped)
        ELSE col

\* The temporal rule and what follows it.
cast_temporal_or_later(col) ==
    LET dt_try == [i \in DOMAIN col.values |-> to_datetime(col.values[i])]
    IN  IF ratio_reaches(dt_try) THEN Typed("datetime64", dt_try)
        ELSE cast_boolean_or_keep(col)

\* A plausible slip: one integral value makes the column an integer column.
smart_cast_column_any_integral(col) ==
    LET num_try == [i \in DOMAIN col.values |-> to_numeric(col.values[i])]
        present == {i \in DOMAIN num_try : num_try[i] # None}
    IN  IF col.dtype # "object" THEN col
        ELSE IF ratio_reaches(num_try)
        THEN IF \E i \in present : is_integer(num_try[i][1])
             THEN Typed("Int64", num_try)
             ELSE Typed("float64", num_try)
        ELSE cast_temporal_or_later(col)

\* The body of the loop of smart_cast_df for one column.  A column whose
\* dtype is already numeric, boolean or temporal is kept.  Under the numeric
\* rule astype("Int64") raises when an integral value does not fit 64 bits;
\* the except branch passes and the later rules are tried.
smart_cast_column(col) ==
    LET num_try == [i \in DOMAIN col.values |-> to_numeric(col.values[i])]
        present == {i \in DOMAIN num_try : num_try[i] # None}
    IN  IF col.dtype # "object" THEN col
        ELSE IF ratio_reaches(num_try)
        THEN IF \A i \in present : is_integer(num_try[i][1])
             THEN IF \A i \in present : FitsInt64(num_try[i][1])
                  THEN Typed("Int64", num_try)
                  ELSE cast_temporal_or_later(col)
             ELSE Typed("float64", num_try)
        ELSE cast_temporal_or_later(col)

\* smart_cast_df: a frame is the sequence of its columns.
smart_cast_df(df) == [c \in DOMAIN df |-> smart_cast_column(df[c])]

\* Bounds of the columns tried: ColLen cells, all the same but for up to
\* MaxOdd cells at the front, and every column of up to MaxShort cells.
ColLen == 10
MaxOdd == 2
MaxShort == 2

CellTexts ==
    { <<"1">>, <<"2",".","0">>, <<"1",".","5">>, <<"-","3">>, <<"x">>, <<"2","0","2","0","-","0","1","-","0","2">>, <<" ","Y","e","s"," ">>,
      <<"f">>, <<"0">>, <<"1","0","0","0","0","0","0","0","0","0","0","0","0","0","0","0","0","0","0","0","0">> }
Cells == {None} \cup {Some(t) : t \in CellTexts}

Repeat(x, n) == [i \in 1..n |-> x]

ExampleNine == <<<<"1">>,<<"2">>,<<"x">>,<<"4">>,<<"5">>,<<"6">>,<<"7">>,<<"8">>,<<"9">>,<<"1","0">>>>
ExampleEight == <<<<"1">>,<<"2">>,<<"x">>,<<"y">>,<<"5">>,<<"6">>,<<"7">>,<<"8">>,<<"9">>,<<"1","0">>>>
AsCells(texts) == [i \in DOMAIN texts |-> Some(texts[i])]

ObjectColumns ==
    {Typed("object", odd \o Repeat(base, ColLen - Len(odd))) :
        odd \in SeqsUpTo(Cells, MaxOdd), base \in Cells}
      \cup {Typed("object", v) : v \in SeqsUpTo(Cells, MaxShort)}
      \cup {Typed("object", AsCells(ExampleNine)),
            Typed("object", AsCells(ExampleEight))}

\* Columns the reader typed already.
TypedColumns ==
    { Typed("int64", <<Some([neg |-> FALSE, int |-> <<"7">>, frac |-> <<>>])>>),
      Typed("bool", <<Some(TRUE), Some(FALSE)>>) }

ApplyCast ==
    /\ call.fn = "smart_cast_df" /\ ~call.done
    /\ call' = Returned(call, smart_cast_df(call.arg))
    /\ UNCHANGED <<queryVars, loadVars>>

TypistInit ==
    /\ QueryIdle /\ LoadIdle
    /\ call \in {Pending("smart_cast_df", <<col>>) :
                    col \in ObjectColumns \cup TypedColumns}
TypistNext == ApplyCast
TypistSpec == TypistInit /\ [][TypistNext]_vars

----------------------------------------------------------------------------
(* The claims about the ColumnTypist.                                      *)

\* At least 90% of the cells parse under the rule P (none of no cells).
AtLeast90(cells, P(_)) ==
    /\ Len(cells) > 0
    /\ 10 * Cardinality({i \in DOMAIN cells : P(cells[i]) # None}) >= 9 * Len(cells)

ParsedBy(cells, P(_)) == [i \in DOMAIN cells |-> P(cells[i])]

\* Every parsed number of the column is integral and one of them does not
\* fit a signed 64-bit integer: the cast to Int64 raises.
IntegerCastRaises(cells) ==
    /\ \A i \in DOMAIN cells :
          to_numeric(cells[i]) # None => is_integer(to_numeric(cells[i])[1])
    /\ \E i \in DOMAIN cells :
          to_numeric(cells[i]) # None /\ ~FitsInt64(to_numeric(cells[i])[1])

\* The outcome of the priority chain for the object column col, given
\* whether the numeric rule accepts it.
ChainOutcome(col, out, numeric) ==
    IF numeric
    THEN /\ out.dtype \in {"Int64", "float64"}
         /\ out.values = ParsedBy(col.values, to_numeric)
    ELSE IF AtLeast90(col.values, to_datetime)
    THEN /\ out.dtype = "datetime64"
         /\ out.values = ParsedBy(col.values, to_datetime)
    ELSE IF AtLeast90(col.values, to_boolean)
    THEN /\ out.dtype = "boolean"
         /\ out.values = ParsedBy(col.values, to_boolean)
    ELSE out = col

CastDone == call.fn = "smart_cast_df" /\ call.done

\* C5 as claimed: an untyped column is numeric if at least 90% of its cells
\* parse as numbers, else temporal if at least 90% parse as dates, else
\* boolean if at least 90% map through the lexicon, else text with its cells
\* unchanged; under the accepted rule the cells are the parsed values, null
\* where a cell did not parse.
C5_PriorityChain ==
    CastDone =>
        \A c \in DOMAIN call.arg :
            call.arg[c].dtype = "object" =>
                ChainOutcome(call.arg[c], call.result[c],
                             AtLeast90(call.arg[c].values, to_numeric))

\* C5 as amended: the numeric rule accepts a column when at least 90% of its
\* cells parse as numbers and the cast succeeds; when every parsed value is
\* integral and one does not fit a 64-bit integer the cast fails and the
\* temporal, boolean and text rules are tried as if the threshold had failed.
\* The rest is as claimed (9 of 10 is accepted, 8 of 10 is not).
C5_PriorityChainUnlessCastFails ==
    CastDone =>
        \A c \in DOMAIN call.arg :
            LET col == call.arg[c]
                out == call.result[c]
            IN  col.dtype = "object" =>
                  /\ ChainOutcome(col, out,
                        /\ AtLeast90(col.values, to_numeric)
                        /\ ~IntegerCastRaises(col.values))
                  /\ col.values = AsCells(ExampleNine) =>
                        out.dtype = "Int64" /\ out.values[3] = None
                  /\ col.values = AsCells(ExampleEight) => out = col

C5_Witness ==
    /\ CastDone
    /\ call.arg[1].values = AsCells(ExampleNine)
    /\ call.result[1].dtype = "Int64"

\* A column the numeric threshold accepts whose cast fails goes on to the
\* later rules.
C5_WitnessCastFails ==
    /\ CastDone
    /\ call.arg[1].dtype = "object"
    /\ AtLeast90(call.arg[1].values, to_numeric)
    /\ IntegerCastRaises(call.arg[1].values)
    /\ call.result[1] = call.arg[1]

----------------------------------------------------------------------------
(* DatasetLoader: list_csv_files, read_csv_any and load_all.  A source file *)
(* is its path, the encoding of its bytes and the frame pd.read_csv makes   *)
(* of its text.                                                             *)

\* The characters of the paths in code-point order, for sorted().
CodeOrder ==
    <<" ", "!", ".", "/">> \o DigitSeq \o UpperSeq \o <<"_">> \o LowerSeq
CodePoint(c) == CHOOSE i \in DOMAIN CodeOrder : CodeOrder[i] = c

\* a < b for two texts, as Python compares str.
RECURSIVE TextLess(_, _)
TextLess(a, b) ==
    IF b = <<>> THEN FALSE
    ELSE IF a = <<>> THEN TRUE
    ELSE IF a[1] # b[1] THEN CodePoint(a[1]) < CodePoint(b[1])
    ELSE TextLess(Tail(a), Tail(b))

\* list_csv_files: the paths found, sorted, each once.
RECURSIVE SortedPaths(_)
SortedPaths(S) ==
    IF S = {} THEN <<>>
    ELSE LET least == CHOOSE p \in S : \A q \in S \ {p} : TextLess(p, q)
         IN  <<least>> \o SortedPaths(S \ {least})

\* The bytes of a file decode under a codec: "utf-8-sig" is "utf-8" that
\* drops a leading byte-order mark, so both decode the same files.
Decodes(encoding, codec) ==
    /\ codec \in {"utf-8", "utf-8-sig"}
    /\ encoding \in {"utf-8", "utf-8-sig"}

\* read_csv_any: Some(frame), or None when the second read raises too.
read_csv_any(file) ==
    IF Decodes(file.encoding, "utf-8") THEN Some(file.frame)
    ELSE IF Decodes(file.encoding, "utf-8-sig") THEN Some(file.frame)
    ELSE None

\* The substring test of classify.
Contains(s, w) ==
    \E i \in 1..(Len(s) - Len(w) + 1) : SubSeq(s, i, i + Len(w) - 1) = w

\* classify of load_all: both other branches give "master".
classify(fn) ==
    IF Contains(fn, <<"_","C","T","_">>) THEN "transaction" ELSE "master"

\* A plausible slip: if_exists="fail" semantics, the first table is kept.
to_sql_keep_first(tables, name, df) ==
    [n \in DOMAIN tables \cup {name} |->
        IF n \in DOMAIN tables THEN tables[n] ELSE df]

\* df.to_sql(name, conn, if_exists="replace", index=False)
to_sql(tables, name, df) ==
    [n \in DOMAIN tables \cup {name} |-> IF n = name THEN df ELSE tables[n]]

\* if not files: return None, [], [], ...
LoadNothing ==
    /\ load_pc = "loading"
    /\ files = <<>>
    /\ load_pc' = "nodata"
    /\ UNCHANGED <<files, pos, store, txn, master, table_category_map,
                   queryVars, call>>

\* One pass of the loop of load_all.  When read_csv_any raises, nothing
\* catches it: load_all ends there and its connection and lists are lost.
LoadFile ==
    /\ load_pc = "loading"
    /\ pos <= Len(files)
    /\ LET f == files[pos]
           name == table_name_for(f.path)
           read == read_csv_any(f)
           cat == classify(Basename(f.path))
       IN  IF read = None
           THEN /\ load_pc' = "raised"
                /\ store' = <<>>
                /\ txn' = <<>>
                /\ master' = <<>>
                /\ table_category_map' = <<>>
                /\ UNCHANGED pos
           ELSE /\ store' = to_sql(store, name, smart_cast_df(read[1]))
                /\ table_category_map' =
                      [n \in DOMAIN table_category_map \cup {name} |->
                          IF n = name THEN cat ELSE table_category_map[n]]
                /\ txn' = IF cat = "transaction" THEN Append(txn, name) ELSE txn
                /\ master' = IF cat = "transaction" THEN master
                             ELSE Append(master, name)
                /\ pos' = pos + 1
                /\ UNCHANGED load_pc
    /\ UNCHANGED <<files, queryVars, call>>

\* The loop is over: load_all returns the connection and the lists.
LoadReturn ==
    /\ load_pc = "loading"
    /\ files # <<>>
    /\ pos > Len(files)
    /\ load_pc' = "done"
    /\ UNCHANGED <<files, pos, store, txn, master, table_category_map,
                   queryVars, call>>

\* Bounds of the directory: at most MaxFiles files among LoadPaths.
MaxFiles == 3

PathUpperA == DataDir \o <<"A",".","c","s","v">>
PathLowerA == DataDir \o <<"a",".","c","s","v">>
PathMntA == <<"/","m","n","t","/">> \o DataDir \o <<"a",".","c","s","v">>
PathSales == DataDir \o <<"s","a","l","e","s",".","c","s","v">>
PathCTSales == DataDir \o PrefixCT \o <<"s","a","l","e","s">> \o DotCsv
LoadPaths == {PathUpperA, PathLowerA, PathMntA, PathSales, PathCTSales}

Encodings == {"utf-8", "utf-8-sig", "latin-1"}

FrameNumbers == <<Typed("object", <<Some(<<"1">>), Some(<<"2",".","0">>)>>)>>
FrameWords == <<Typed("object", <<Some(<<"x">>), Some(<<"1">>)>>)>>
Frames == {FrameNumbers, FrameWords}

Directories ==
    UNION {[S -> Encodings \X Frames] :
              S \in {T \in SUBSET LoadPaths : Cardinality(T) <= MaxFiles}}

FilesOf(dir) ==
    LET paths == SortedPaths(DOMAIN dir)
    IN  [i \in DOMAIN paths |->
            [path |-> paths[i], encoding |-> dir[paths[i]][1],
             frame |-> dir[paths[i]][2]]]

LoadInit ==
    /\ QueryIdle
    /\ call = NoCall
    /\ files \in {FilesOf(dir) : dir \in Directories}
    /\ pos = 1
    /\ store = <<>>
    /\ txn = <<>>
    /\ master = <<>>
    /\ table_category_map = <<>>
    /\ load_pc = "loading"

LoadNext == LoadNothing \/ LoadFile \/ LoadReturn
LoadSpec == LoadInit /\ [][LoadNext]_vars

----------------------------------------------------------------------------
(* The claims about the loader.                                            *)

NameOf(i) == table_name_for(files[i].path)

\* The last source of the list that resolves to the name n.
LastSource(n) == SetMax({i \in DOMAIN files : NameOf(i) = n})

\* C8: when load_all returns, the store holds one table for each resolved
\* name and no other, and that table is the dataset of the last source in
\* list order that resolved to the name.
C8_LastWriterWins ==
    load_pc = "done" =>
        /\ DOMAIN store = {NameOf(i) : i \in DOMAIN files}
        /\ \A n \in DOMAIN store :
              store[n] = smart_cast_df(files[LastSource(n)].frame)

C8_Witness ==
    /\ load_pc = "done"
    /\ \E i \in DOMAIN files : \E j \in DOMAIN files :
          /\ i < j
          /\ NameOf(i) = NameOf(j)
          /\ smart_cast_df(files[i].frame) # smart_cast_df(files[j].frame)
          /\ store[NameOf(j)] = smart_cast_df(files[j].frame)

Readable(file) == read_csv_any(file) # None

\* C9 as claimed: when load_all is over, with or without a file that could
\* not be decoded, every readable source of the list has its table in the
\* store.
C9_FailureIsolated ==
    load_pc \in {"done", "raised"} =>
        \A i \in DOMAIN files :
            Readable(files[i]) => NameOf(i) \in DOMAIN store
=============================================================================
